---- MODULE Spec2Model ----
(***************************************************************************)
(* The ticket dashboard script dados.py as a state machine.  One render    *)
(* pass is one top-to-bottom execution of the script; pc is the position   *)
(* in the script, ns the set of Python names bound so far in the pass, and *)
(* shown the outputs already sent to the page in the pass.  The CSV file   *)
(* and the widget values survive from one pass to the next.                *)
(*                                                                         *)
(* A CSV cell holding a number or a timestamp is text: a sequence of       *)
(* one-character strings.  Sector and status labels are kept as strings.   *)
(* Cells are never empty.  Time of day is kept in whole hours.             *)
(***************************************************************************)
EXTENDS Integers, Sequences, FiniteSets, TLC

\* ------------------------------------------------------------- bounds ----
\* Largest number of rows of a CSV file; the synthetic table (100 rows in
\* the script) is scaled down to this size.
MaxRows == 2
\* Largest number of rows of a CSV file that was damaged after it was written.
MaxBadRows == 1

\* ---------------------------------------------------------- the state ----
VARIABLES
  file,                \* chamados.csv on disk
  widgets,             \* the sidebar values kept by the session between passes
  pc,                  \* position of the pass in the script
  err,                 \* the exception that ended the pass, or "none"
  ns,                  \* the names bound so far in the pass
  shown,               \* the outputs sent to the page so far in the pass
  df, datas_selecionadas, setores_sel, status_sel, df_filtrado,
  tempo_medio, taxa_resolucao, total_chamados, setor_top,
  chamados_por_setor, status_count, graf3, chamados_por_mes, download

\* ------------------------------------------------------ the vocabulary ----
setoresVocab == {"TI", "RH"}
statusVocab == {"Aberto", "Resolvido"}
\* np.random.seed(42); np.random.randint(1, 72, size=100): the first values.
SeededTempo == <<52, 15, 61, 21, 24, 3, 22, 53, 2, 30>>
Stamps ==
  { [y |-> 2024, m |-> 2, d |-> 10, h |-> 0],
    [y |-> 2024, m |-> 10, d |-> 20, h |-> 13],
    [y |-> 2024, m |-> 12, d |-> 5, h |-> 0] }
Columns == <<"ID", "setor", "data", "status", "tempo_resolucao">>

\* ---------------------------------------------------------------- text ----
Digits == <<"0", "1", "2", "3", "4", "5", "6", "7", "8", "9">>
\* The characters of the texts of the model, in code-point order.
Chars == <<" ", "-">> \o Digits \o <<":", "a", "b", "c">>

CharCode(c) == CHOOSE i \in 1..Len(Chars) : Chars[i] = c
IsDigit(c) == \E i \in 1..10 : Digits[i] = c
DigitVal(c) == (CHOOSE i \in 1..10 : Digits[i] = c) - 1

RECURSIVE TextLess(_, _)
\* Python's str comparison: lexicographic on code points.
TextLess(a, b) ==
  IF b = <<>> THEN FALSE
  ELSE IF a = <<>> THEN TRUE
  ELSE IF Head(a) # Head(b) THEN CharCode(Head(a)) < CharCode(Head(b))
  ELSE TextLess(Tail(a), Tail(b))

\* Python's order on the labels of the model (code-point order).
StrOrder ==
  <<"-", "Aberto", "Comercial", "Em andamento", "Financeiro", "Logística",
    "RH", "Resolvido", "TI">>
StrRank(s) == CHOOSE i \in 1..Len(StrOrder) : StrOrder[i] = s
StrLess(a, b) == StrRank(a) < StrRank(b)

RECURSIVE FmtInt(_)
FmtInt(n) ==
  IF n < 10 THEN <<Digits[n + 1]>>
  ELSE FmtInt(n \div 10) \o <<Digits[(n % 10) + 1]>>

IsIntText(t) == Len(t) > 0 /\ \A i \in 1..Len(t) : IsDigit(t[i])

RECURSIVE ParseInt(_)
ParseInt(t) ==
  IF Len(t) = 1 THEN DigitVal(t[1])
  ELSE 10 * ParseInt(SubSeq(t, 1, Len(t) - 1)) + DigitVal(t[Len(t)])

Pad2(n) == <<Digits[(n \div 10) + 1], Digits[(n % 10) + 1]>>
Pad4(n) == Pad2(n \div 100) \o Pad2(n % 100)

FmtDate(s) == Pad4(s.y) \o <<"-">> \o Pad2(s.m) \o <<"-">> \o Pad2(s.d)
\* A datetime column is written date-only when every value is at midnight.
FmtStamp(s, datesOnly) ==
  IF datesOnly THEN FmtDate(s)
  ELSE FmtDate(s) \o <<" ">> \o Pad2(s.h) \o <<":", "0", "0", ":", "0", "0">>

IsStampText(t) ==
  /\ Len(t) \in {10, 19}
  /\ \A i \in {1, 2, 3, 4, 6, 7, 9, 10} : IsDigit(t[i])
  /\ t[5] = "-" /\ t[8] = "-"
  /\ ParseInt(SubSeq(t, 6, 7)) \in 1..12
  /\ ParseInt(SubSeq(t, 9, 10)) \in 1..31
  /\ Len(t) = 19 =>
       /\ t[11] = " " /\ t[14] = ":" /\ t[17] = ":"
       /\ \A i \in {12, 13, 15, 16, 18, 19} : IsDigit(t[i])
       /\ ParseInt(SubSeq(t, 12, 13)) \in 0..23

ParseStamp(t) ==
  [y |-> ParseInt(SubSeq(t, 1, 4)), m |-> ParseInt(SubSeq(t, 6, 7)),
   d |-> ParseInt(SubSeq(t, 9, 10)),
   h |-> IF Len(t) = 19 THEN ParseInt(SubSeq(t, 12, 13)) ELSE 0]

StampKey(s) == ((s.y * 100 + s.m) * 100 + s.d) * 100 + s.h
StampLeq(a, b) == StampKey(a) <= StampKey(b)
DateOf(s) == [y |-> s.y, m |-> s.m, d |-> s.d]
\* pd.to_datetime of a date: midnight of that day.
Midnight(dt) == [y |-> dt.y, m |-> dt.m, d |-> dt.d, h |-> 0]

\* ------------------------------------------------- tables and CSV files ----
\* A DataFrame: the column names in order, the dtype of each column and the
\* rows, each row a function from the column names to the values.
Range(f) == {f[i] : i \in DOMAIN f}
IsLabelCol(c) == c \in {"setor", "status"}
EmptyFrame == [cols |-> <<>>, dtype |-> <<>>, rows |-> <<>>]
NoFile == [exists |-> FALSE, header |-> <<>>, lines |-> <<>>]

\* DataFrame.to_csv(index=False)
ToCsv(t) ==
  LET datesOnly(c) == \A i \in 1..Len(t.rows) : t.rows[i][c].h = 0
      cell(r, c) ==
        IF t.dtype[c] = "int64" THEN FmtInt(r[c])
        ELSE IF t.dtype[c] = "datetime64" THEN FmtStamp(r[c], datesOnly(c))
        ELSE r[c]
  IN [exists |-> TRUE, header |-> t.cols,
      lines |-> [i \in 1..Len(t.rows) |->
                   [c \in Range(t.cols) |-> cell(t.rows[i], c)]]]

\* pd.read_csv: a column whose cells are all integers becomes int64, any
\* other column keeps its text (dtype object).
ReadCsv(f) ==
  LET dt == [c \in Range(f.header) |->
               IF ~IsLabelCol(c) /\ \A i \in 1..Len(f.lines) : IsIntText(f.lines[i][c])
               THEN "int64" ELSE "object"]
  IN [cols |-> f.header, dtype |-> dt,
      rows |-> [i \in 1..Len(f.lines) |->
                  [c \in Range(f.header) |->
                     IF dt[c] = "int64" THEN ParseInt(f.lines[i][c])
                     ELSE f.lines[i][c]]]]

\* pd.to_datetime on the column "data" raises on a value it cannot parse.
CanParseDates(t) ==
  /\ t.dtype["data"] = "object"
  /\ \A i \in 1..Len(t.rows) : IsStampText(t.rows[i]["data"])

\* df["data"] = pd.to_datetime(df["data"])
ToDatetime(t) ==
  [cols |-> t.cols,
   dtype |-> [t.dtype EXCEPT !["data"] = "datetime64"],
   rows |-> [i \in 1..Len(t.rows) |->
               [t.rows[i] EXCEPT !["data"] = ParseStamp(t.rows[i]["data"])]]]

\* The frame the script builds when the file is absent: one row per ID.
\* Sector, status and day are drawn with random, the hours with the seeded
\* numpy generator.
TicketRows == [setor : setoresVocab, data : Stamps, status : statusVocab]
Frame(rs) ==
  [cols |-> Columns,
   dtype |-> [c \in Range(Columns) |->
                IF c \in {"ID", "tempo_resolucao"} THEN "int64"
                ELSE IF c = "data" THEN "datetime64" ELSE "object"],
   rows |-> [i \in 1..Len(rs) |->
               [c \in Range(Columns) |->
                  IF c = "ID" THEN i
                  ELSE IF c = "tempo_resolucao" THEN SeededTempo[i]
                  ELSE rs[i][c]]]]
Frames(n) == {Frame(rs) : rs \in [1..n -> TicketRows]}

\* Files on disk before the first pass: written by to_csv from a frame of
\* tickets, possibly damaged afterwards in one place.
BadText == <<"a", "b", "c">>
DropColumn(f, c) ==
  [exists |-> TRUE,
   header |-> SelectSeq(f.header, LAMBDA x : x # c),
   lines |-> [i \in 1..Len(f.lines) |->
                [x \in Range(f.header) \ {c} |-> f.lines[i][x]]]]
BadCell(f, i, c) == [f EXCEPT !.lines[i][c] = BadText]
GoodFiles == UNION {{ToCsv(t) : t \in Frames(n)} : n \in 1..MaxRows}
MalformedFiles ==
  UNION {{DropColumn(f, c) : c \in Range(Columns)}
           \cup {BadCell(f, i, c) : i \in 1..Len(f.lines),
                                    c \in {"ID", "data", "tempo_resolucao"}}
         : f \in {g \in GoodFiles : Len(g.lines) <= MaxBadRows}}

\* What the spec calls a malformed backing file.
Malformed(f) ==
  /\ f.exists
  /\ \/ \E c \in Range(Columns) : c \notin Range(f.header)
     \/ \E i \in 1..Len(f.lines) :
          \/ ~IsIntText(f.lines[i]["ID"])
          \/ ~IsIntText(f.lines[i]["tempo_resolucao"])
          \/ ~IsStampText(f.lines[i]["data"])

\* ------------------------------------------------------ pandas helpers ----
Column(t, c) == [i \in 1..Len(t.rows) |-> t.rows[i][c]]
Count(q, v) == Cardinality({i \in 1..Len(q) : q[i] = v})
\* The position of the first appearance of a value.
FirstAt(q, v) == CHOOSE i \in 1..Len(q) : q[i] = v /\ \A j \in 1..(i - 1) : q[j] # v
RECURSIVE Sum(_)
Sum(q) == IF q = <<>> THEN 0 ELSE Head(q) + Sum(Tail(q))

\* sorted(...) of a set of labels / of texts
SortedLabels(S) ==
  CHOOSE q \in [1..Cardinality(S) -> S] :
    \A i, j \in 1..Cardinality(S) : i < j => StrLess(q[i], q[j])
SortedTexts(S) ==
  CHOOSE q \in [1..Cardinality(S) -> S] :
    \A i, j \in 1..Cardinality(S) : i < j => TextLess(q[i], q[j])

\* Series.min() / Series.max() of the datetime column
MinStamp(q) == CHOOSE a \in Range(q) : \A b \in Range(q) : StampLeq(a, b)
MaxStamp(q) == CHOOSE a \in Range(q) : \A b \in Range(q) : StampLeq(b, a)

\* A mode() that keeps the order of first appearance instead of sorting.
Mode0FirstSeen(q) ==
  LET top == {v \in Range(q) : \A w \in Range(q) : Count(q, w) <= Count(q, v)}
  IN CHOOSE v \in top : \A w \in top : FirstAt(q, v) <= FirstAt(q, w)

\* Series.mode()[0]: the modes come back sorted, [0] is the smallest.
Mode0(q) ==
  LET top == {v \in Range(q) : \A w \in Range(q) : Count(q, w) <= Count(q, v)}
  IN SortedLabels(top)[1]

\* A group-by that reads the unfiltered table df instead of its argument.
GroupCountLabelsOfDf(t, key) ==
  LET ks == SortedLabels(Range(Column(df, key)))
  IN [i \in 1..Len(ks) |-> [key |-> ks[i], ID |-> Count(Column(df, key), ks[i])]]

\* df.groupby(key)["ID"].count().reset_index(): one row per key present,
\* keys ascending, the count of the rows of the group.
GroupCountLabels(t, key) ==
  LET ks == SortedLabels(Range(Column(t, key)))
  IN [i \in 1..Len(ks) |-> [key |-> ks[i], ID |-> Count(Column(t, key), ks[i])]]
GroupCountTexts(t, key) ==
  LET ks == SortedTexts(Range(Column(t, key)))
  IN [i \in 1..Len(ks) |-> [key |-> ks[i], ID |-> Count(Column(t, key), ks[i])]]

\* Series.value_counts().reset_index(): one row per value present, the most
\* frequent first, equal counts in order of first appearance.
ValueCounts(q) ==
  LET S == Range(q)
      before(a, b) ==
        \/ Count(q, a) > Count(q, b)
        \/ Count(q, a) = Count(q, b) /\ FirstAt(q, a) < FirstAt(q, b)
      ks == CHOOSE k \in [1..Cardinality(S) -> S] :
              \A i, j \in 1..Cardinality(S) : i < j => before(k[i], k[j])
  IN [i \in 1..Len(ks) |-> [Status |-> ks[i], Quantidade |-> Count(q, ks[i])]]

\* A month label without the leading zero of the month.
MonthTextNoPad(s) == Pad4(s.y) \o <<"-">> \o FmtInt(s.m)

\* Series.dt.to_period("M").astype(str): "YYYY-MM"
MonthText(s) == Pad4(s.y) \o <<"-">> \o Pad2(s.m)

\* df_filtrado["mes"] = ...
WithMes(t) ==
  [cols |-> Append(t.cols, "mes"),
   dtype |-> [c \in Range(t.cols) \cup {"mes"} |->
                IF c = "mes" THEN "object" ELSE t.dtype[c]],
   rows |-> [i \in 1..Len(t.rows) |->
               [c \in Range(t.cols) \cup {"mes"} |->
                  IF c = "mes" THEN MonthText(t.rows[i]["data"])
                  ELSE t.rows[i][c]]]]

\* The boolean mask of the filter, for one row.
Keep(r, datas, ssel, stsel) ==
  /\ r["setor"] \in ssel
  /\ r["status"] \in stsel
  /\ StampLeq(Midnight(datas[1]), r["data"])
  /\ StampLeq(r["data"], Midnight(datas[2]))

\* df[mask]
FilterFrame(t, datas, ssel, stsel) ==
  [t EXCEPT !.rows = SelectSeq(t.rows, LAMBDA r : Keep(r, datas, ssel, stsel))]

\* ------------------------------------------------------------ the pass ----
vars ==
  <<file, widgets, pc, err, ns, shown, df, datas_selecionadas, setores_sel,
    status_sel, df_filtrado, tempo_medio, taxa_resolucao, total_chamados,
    setor_top, chamados_por_setor, status_count, graf3, chamados_por_mes,
    download>>

sel == <<datas_selecionadas, setores_sel, status_sel>>
metrics == <<tempo_medio, taxa_resolucao, total_chamados, setor_top>>
views == <<chamados_por_setor, status_count, graf3, chamados_por_mes>>

Zero == [num |-> 0, den |-> 1]
Out(kind, of) == [kind |-> kind, of |-> of]
NoWidgets == [set |-> FALSE, datas |-> <<>>, setores |-> {}, status |-> {}]

\* The module-level names have no value at the start of a pass.
Fresh ==
  /\ pc = "load"
  /\ err = "none"
  /\ ns = {}
  /\ shown = <<>>
  /\ df = EmptyFrame
  /\ datas_selecionadas = <<>>
  /\ setores_sel = {}
  /\ status_sel = {}
  /\ df_filtrado = EmptyFrame
  /\ tempo_medio = Zero
  /\ taxa_resolucao = Zero
  /\ total_chamados = 0
  /\ setor_top = "-"
  /\ chamados_por_setor = <<>>
  /\ status_count = <<>>
  /\ graf3 = <<>>
  /\ chamados_por_mes = <<>>
  /\ download = NoFile

\* A pass starts: the script runs from its first line in a new namespace.
StartPass ==
  /\ pc' = "load"
  /\ err' = "none"
  /\ ns' = {}
  /\ shown' = <<>>
  /\ df' = EmptyFrame
  /\ datas_selecionadas' = <<>>
  /\ setores_sel' = {}
  /\ status_sel' = {}
  /\ df_filtrado' = EmptyFrame
  /\ tempo_medio' = Zero
  /\ taxa_resolucao' = Zero
  /\ total_chamados' = 0
  /\ setor_top' = "-"
  /\ chamados_por_setor' = <<>>
  /\ status_count' = <<>>
  /\ graf3' = <<>>
  /\ chamados_por_mes' = <<>>
  /\ download' = NoFile

Init ==
  /\ file \in {NoFile} \cup GoodFiles \cup MalformedFiles
  /\ widgets = NoWidgets
  /\ Fresh

Raise(e) == err' = e /\ pc' = "failed"

\* Lines 11-27: the file is absent, a frame of random tickets is built,
\* bound to df and written.  Every datetime.today() carries the time of day
\* of the call, which can be any hour, midnight included.
Bootstrap ==
  /\ pc = "load" /\ err = "none" /\ ~file.exists
  /\ \E t \in Frames(MaxRows) :
       /\ df' = t
       /\ file' = ToCsv(t)
  /\ ns' = ns \cup {"df"}
  /\ shown' = shown \o <<Out("info", "gerando"), Out("success", "criado")>>
  /\ UNCHANGED <<widgets, pc, err, sel, df_filtrado, metrics, views, download>>

\* Lines 30-31
Load ==
  /\ pc = "load" /\ err = "none" /\ file.exists
  /\ LET t == ReadCsv(file) IN
       IF "data" \notin Range(t.cols)
       THEN Raise("KeyError") /\ df' = t /\ ns' = ns \cup {"df"}
       ELSE IF ~CanParseDates(t)
       THEN Raise("ValueError") /\ df' = t /\ ns' = ns \cup {"df"}
       ELSE /\ df' = ToDatetime(t)
            /\ ns' = ns \cup {"df"}
            /\ pc' = "sidebar"
            /\ err' = err
  /\ UNCHANGED <<file, widgets, shown, sel, df_filtrado, metrics, views, download>>

\* The dates the date picker offers: those from min_value to max_value.
Dates == {DateOf(s) : s \in Stamps}
DateKey(dt) == StampKey(Midnight(dt))
PickableDates(t) ==
  {dt \in Dates : /\ DateKey(DateOf(MinStamp(Column(t, "data")))) <= DateKey(dt)
                  /\ DateKey(dt) <= DateKey(DateOf(MaxStamp(Column(t, "data"))))}
\* What a date_input in range mode can return: both ends, or only the start
\* while the user is still picking.
DateChoices(t) ==
  {p \in PickableDates(t) \X PickableDates(t) : DateKey(p[1]) <= DateKey(p[2])}
    \cup {<<a>> : a \in PickableDates(t)}

\* The values the three widgets are created with.
Defaults(t) ==
  [set |-> TRUE,
   datas |-> <<DateOf(MinStamp(Column(t, "data"))), DateOf(MaxStamp(Column(t, "data")))>>,
   setores |-> Range(SortedLabels(Range(Column(t, "setor")))),
   status |-> Range(SortedLabels(Range(Column(t, "status"))))]

\* Lines 44-59: the widgets return the session's values, their defaults on
\* the first pass.
Sidebar ==
  /\ pc = "sidebar" /\ err = "none"
  /\ IF "setor" \notin Range(df.cols) \/ "status" \notin Range(df.cols)
     THEN Raise("KeyError") /\ UNCHANGED <<widgets, ns, sel>>
     ELSE /\ widgets' = IF widgets.set THEN widgets ELSE Defaults(df)
          /\ datas_selecionadas' = widgets'.datas
          /\ setores_sel' = widgets'.setores
          /\ status_sel' = widgets'.status
          /\ ns' = ns \cup {"datas_selecionadas", "setores_sel", "status_sel"}
          /\ pc' = "filter"
          /\ err' = err
  /\ UNCHANGED <<file, shown, df, df_filtrado, metrics, views, download>>

\* Lines 62-67
Filter ==
  /\ pc = "filter" /\ err = "none"
  /\ IF Len(datas_selecionadas) < 2
     THEN Raise("IndexError") /\ UNCHANGED <<ns, df_filtrado>>
     ELSE /\ df_filtrado' = FilterFrame(df, datas_selecionadas, setores_sel, status_sel)
          /\ ns' = ns \cup {"df_filtrado"}
          /\ pc' = "kpis"
          /\ err' = err
  /\ UNCHANGED <<file, widgets, shown, df, sel, metrics, views, download>>

\* A rate taken over the unfiltered table df instead of its argument.
TaxaResolucaoOfDf(t) ==
  [num |-> 100 * Count(Column(df, "status"), "Resolvido"), den |-> Len(df.rows)]

\* Line 78: the share of "Resolvido" rows, times 100, as a fraction.
TaxaResolucao(t) ==
  [num |-> 100 * Count(Column(t, "status"), "Resolvido"), den |-> Len(t.rows)]

\* The block without its emptiness guard: mode()[0] of an empty column raises.
KpisRaisesNoGuard(t) ==
  IF "tempo_resolucao" \notin Range(t.cols) THEN "KeyError"
  ELSE IF t.dtype["tempo_resolucao"] # "int64" THEN "TypeError"
  ELSE IF t.rows = <<>> THEN "IndexError"
  ELSE "none"

\* Lines 76-82: the exception the block raises on the frame, or "none".
KpisRaises(t) ==
  IF t.rows = <<>> THEN "none"
  ELSE IF "tempo_resolucao" \notin Range(t.cols) THEN "KeyError"
  ELSE IF t.dtype["tempo_resolucao"] # "int64" THEN "TypeError"
  ELSE "none"

\* Lines 76-82: the four values the block binds.
KpisValues(t) ==
  IF t.rows = <<>>
  THEN [tempo_medio |-> Zero, taxa_resolucao |-> Zero, total_chamados |-> 0,
        setor_top |-> "-"]
  ELSE [tempo_medio |-> [num |-> Sum(Column(t, "tempo_resolucao")), den |-> Len(t.rows)],
        taxa_resolucao |-> TaxaResolucao(t),
        total_chamados |-> Len(t.rows),
        setor_top |-> Mode0(Column(t, "setor"))]

\* Lines 76-82
Kpis ==
  /\ pc = "kpis" /\ err = "none"
  /\ IF KpisRaises(df_filtrado) # "none"
     THEN Raise(KpisRaises(df_filtrado)) /\ UNCHANGED <<ns, metrics>>
     ELSE /\ tempo_medio' = KpisValues(df_filtrado).tempo_medio
          /\ taxa_resolucao' = KpisValues(df_filtrado).taxa_resolucao
          /\ total_chamados' = KpisValues(df_filtrado).total_chamados
          /\ setor_top' = KpisValues(df_filtrado).setor_top
          /\ ns' = ns \cup {"tempo_medio", "taxa_resolucao", "total_chamados", "setor_top"}
          /\ pc' = "metrics"
          /\ err' = err
  /\ UNCHANGED <<file, widgets, shown, df, sel, df_filtrado, views, download>>

\* The metric row placed above the block that computes its values.
ShowMetricsBeforeKpis ==
  /\ pc = "kpis" /\ err = "none"
  /\ shown' = shown \o <<Out("metric", "tempo_medio"), Out("metric", "taxa_resolucao"),
                         Out("metric", "total_chamados"), Out("metric", "setor_top")>>
  /\ pc' = "graf1"
  /\ UNCHANGED <<file, widgets, err, ns, df, sel, df_filtrado, metrics, views, download>>

\* Lines 84-88
ShowMetrics ==
  /\ pc = "metrics" /\ err = "none"
  /\ shown' = shown \o <<Out("metric", "tempo_medio"), Out("metric", "taxa_resolucao"),
                         Out("metric", "total_chamados"), Out("metric", "setor_top")>>
  /\ pc' = "graf1"
  /\ UNCHANGED <<file, widgets, err, ns, df, sel, df_filtrado, metrics, views, download>>

\* Lines 99-113
Graf1 ==
  /\ pc = "graf1" /\ err = "none"
  /\ IF df_filtrado.rows = <<>>
     THEN /\ shown' = Append(shown, Out("warning", "graf1"))
          /\ pc' = "graf2" /\ err' = err
          /\ UNCHANGED <<ns, chamados_por_setor>>
     ELSE IF "ID" \notin Range(df_filtrado.cols)
     THEN Raise("KeyError") /\ UNCHANGED <<shown, ns, chamados_por_setor>>
     ELSE /\ chamados_por_setor' = GroupCountLabels(df_filtrado, "setor")
          /\ ns' = ns \cup {"chamados_por_setor"}
          /\ shown' = Append(shown, Out("plotly_chart", "graf1"))
          /\ pc' = "graf2" /\ err' = err
  /\ UNCHANGED <<file, widgets, df, sel, df_filtrado, metrics, status_count, graf3,
                 chamados_por_mes, download>>

\* Lines 116-131
Graf2 ==
  /\ pc = "graf2" /\ err = "none"
  /\ IF df_filtrado.rows = <<>>
     THEN /\ shown' = Append(shown, Out("warning", "graf2"))
          /\ UNCHANGED <<ns, status_count>>
     ELSE /\ status_count' = ValueCounts(Column(df_filtrado, "status"))
          /\ ns' = ns \cup {"status_count"}
          /\ shown' = Append(shown, Out("plotly_chart", "graf2"))
  /\ pc' = "graf3"
  /\ UNCHANGED <<file, widgets, err, df, sel, df_filtrado, metrics, chamados_por_setor,
                 graf3, chamados_por_mes, download>>

\* Lines 137-150: the box plot gets the rows themselves; it draws one box
\* per sector from the (setor, tempo_resolucao) pairs.
Graf3 ==
  /\ pc = "graf3" /\ err = "none"
  /\ IF df_filtrado.rows = <<>>
     THEN /\ shown' = Append(shown, Out("warning", "graf3"))
          /\ UNCHANGED <<ns, graf3>>
     ELSE /\ graf3' = [i \in 1..Len(df_filtrado.rows) |->
                         [x |-> df_filtrado.rows[i]["setor"],
                          y |-> df_filtrado.rows[i]["tempo_resolucao"]]]
          /\ ns' = ns \cup {"graf3"}
          /\ shown' = Append(shown, Out("plotly_chart", "graf3"))
  /\ pc' = "graf4"
  /\ UNCHANGED <<file, widgets, err, df, sel, df_filtrado, metrics, chamados_por_setor,
                 status_count, chamados_por_mes, download>>

\* Lines 153-168: the column "mes" is added to df_filtrado itself.
Graf4 ==
  /\ pc = "graf4" /\ err = "none"
  /\ IF df_filtrado.rows = <<>>
     THEN /\ shown' = Append(shown, Out("warning", "graf4"))
          /\ UNCHANGED <<ns, df_filtrado, chamados_por_mes>>
     ELSE /\ df_filtrado' = WithMes(df_filtrado)
          /\ chamados_por_mes' = GroupCountTexts(df_filtrado', "mes")
          /\ ns' = ns \cup {"chamados_por_mes"}
          /\ shown' = Append(shown, Out("plotly_chart", "graf4"))
  /\ pc' = "export"
  /\ UNCHANGED <<file, widgets, err, df, sel, metrics, chamados_por_setor, status_count,
                 graf3, download>>

\* Lines 171-181
Export ==
  /\ pc = "export" /\ err = "none"
  /\ IF df_filtrado.rows = <<>>
     THEN /\ shown' = Append(shown, Out("info", "export"))
          /\ UNCHANGED download
     ELSE /\ download' = ToCsv(df_filtrado)
          /\ shown' = Append(shown, Out("download_button", "chamados_filtrados.csv"))
  /\ pc' = "table"
  /\ UNCHANGED <<file, widgets, err, ns, df, sel, df_filtrado, metrics, views>>

\* Lines 184-186
Table ==
  /\ pc = "table" /\ err = "none"
  /\ shown' = Append(shown, Out("dataframe", "df_filtrado"))
  /\ pc' = "done"
  /\ UNCHANGED <<file, widgets, err, ns, df, sel, df_filtrado, metrics, views, download>>

\* The user changes one sidebar widget: the session keeps the new value and
\* the script runs again from its first line.
Rerun ==
  /\ pc \in {"done", "failed"}
  /\ {"datas_selecionadas", "setores_sel", "status_sel"} \subseteq ns
  /\ \/ \E d \in DateChoices(df) \ {widgets.datas} :
          widgets' = [widgets EXCEPT !.datas = d]
     \/ \E s \in (SUBSET Defaults(df).setores) \ {widgets.setores} :
          widgets' = [widgets EXCEPT !.setores = s]
     \/ \E st \in (SUBSET Defaults(df).status) \ {widgets.status} :
          widgets' = [widgets EXCEPT !.status = st]
  /\ StartPass
  /\ UNCHANGED file

Next ==
  \/ Bootstrap
  \/ Load
  \/ Sidebar
  \/ Filter
  \/ Kpis
  \/ ShowMetrics
  \/ Graf1
  \/ Graf2
  \/ Graf3
  \/ Graf4
  \/ Export
  \/ Table
  \/ Rerun

Spec == Init /\ [][Next]_vars

\* ---------------------------------------------------------- the claims ----
Bound(n) == n \in ns
HasRows == Bound("df_filtrado") /\ df_filtrado.rows # <<>>
IdsOf(rows) == [i \in 1..Len(rows) |-> rows[i]["ID"]]
\* The outputs of the pass without the two notices of the bootstrap.
PassOutputs == SelectSeq(shown, LAMBDA o : o.of \notin {"gerando", "criado"})

\* The predicate of the filter as the spec states it: the sector is
\* selected, the status is selected, and the day the ticket was opened on
\* lies between the two selected days, both included.
SpecKeep(r) ==
  /\ r["setor"] \in setores_sel
  /\ r["status"] \in status_sel
  /\ DateKey(datas_selecionadas[1]) <= DateKey(DateOf(r["data"]))
  /\ DateKey(DateOf(r["data"])) <= DateKey(datas_selecionadas[2])

\* C1: for every loaded table and selection, the filtered subset holds, by
\* identifier and in table order, exactly the records whose sector and
\* status are selected and whose opening day lies in the selected range,
\* the end day included whatever the time of day.
C1_FilterMatchesPredicate ==
  (Bound("df_filtrado") /\ ~Malformed(file)) =>
    IdsOf(df_filtrado.rows) = IdsOf(SelectSeq(df.rows, SpecKeep))

\* C10: with the default selection of the first render (every sector and
\* status of the table, first to last opening day) the filtered subset is
\* the whole table.
C10_DefaultSelectionKeepsAll ==
  (pc = "kpis" /\ widgets = Defaults(df) /\ ~Malformed(file)) => df_filtrado = df

\* C3: the export has the columns of the backing file in the same order,
\* and loading it again gives back the records of the filtered subset.
C3_ExportRoundTrips ==
  (download.exists /\ ~Malformed(file)) =>
    /\ download.header = file.header
    /\ ToDatetime(ReadCsv(download))
         = FilterFrame(df, datas_selecionadas, setores_sel, status_sel)

\* C4: a malformed backing file makes the load step fail: no table built
\* from it ever reaches the filter.
C4_MalformedFileFailsAtLoad ==
  Malformed(file) => ~Bound("df_filtrado")

\* What an empty filtered subset makes the pass show, in script order.
EmptyOutputs ==
  <<Out("metric", "tempo_medio"), Out("metric", "taxa_resolucao"),
    Out("metric", "total_chamados"), Out("metric", "setor_top"),
    Out("warning", "graf1"), Out("warning", "graf2"), Out("warning", "graf3"),
    Out("warning", "graf4"), Out("info", "export"), Out("dataframe", "df_filtrado")>>
ScriptStep ==
  Kpis \/ ShowMetrics \/ Graf1 \/ Graf2 \/ Graf3 \/ Graf4 \/ Export \/ Table

\* C2: when the selection excludes every record the pass raises nothing and
\* runs to its end; the metrics are 0, 0, 0 and "-", each of the four views
\* shows its warning and the export its notice, and nothing is computed
\* over the empty subset.
C2_EmptySelectionDegrades ==
  (Bound("df_filtrado") /\ df_filtrado.rows = <<>>) =>
    /\ err = "none"
    /\ pc # "done" => ENABLED ScriptStep
    /\ Bound("tempo_medio") =>
         /\ tempo_medio.num = 0
         /\ taxa_resolucao.num = 0
         /\ total_chamados = 0
         /\ setor_top = "-"
    /\ PassOutputs = SubSeq(EmptyOutputs, 1, Len(PassOutputs))
    /\ pc = "done" => PassOutputs = EmptyOutputs
    /\ ~download.exists
    /\ ns \cap {"chamados_por_setor", "status_count", "graf3", "chamados_por_mes"} = {}

C2_Witness ==
  /\ pc = "done"
  /\ Bound("df_filtrado")
  /\ df.rows # <<>>
  /\ setores_sel = {}
  /\ df_filtrado.rows = <<>>

C6_RateIsResolvedShare ==
  Bound("taxa_resolucao") =>
    LET resolved == Count(Column(df_filtrado, "status"), "Resolvido") IN
      /\ taxa_resolucao.den > 0
      /\ 0 <= taxa_resolucao.num
      /\ taxa_resolucao.num <= 100 * taxa_resolucao.den
      /\ total_chamados = Len(df_filtrado.rows)
      /\ taxa_resolucao.num * total_chamados = 100 * resolved * taxa_resolucao.den

\* The rate of the subset differs from the rate of the whole table.
C6_Witness ==
  /\ Bound("taxa_resolucao")
  /\ df_filtrado.rows # <<>>
  /\ taxa_resolucao.num * Len(df.rows)
       # 100 * Count(Column(df, "status"), "Resolvido") * taxa_resolucao.den

\* The sectors whose count in the filtered subset is the largest.
TopSectors ==
  LET q == Column(df_filtrado, "setor")
  IN {v \in Range(q) : \A w \in Range(q) : Count(q, w) <= Count(q, v)}

AllKpis == {"tempo_medio", "taxa_resolucao", "total_chamados", "setor_top"}
AllViews == {"chamados_por_setor", "status_count", "graf3", "chamados_por_mes"}
IsResult(o) == o.kind \in {"metric", "plotly_chart", "dataframe"}
\* The name a chart is drawn from.
ViewOf(g) ==
  CASE g = "graf1" -> "chamados_por_setor"
    [] g = "graf2" -> "status_count"
    [] g = "graf3" -> "graf3"
    [] g = "graf4" -> "chamados_por_mes"
\* The outputs of a pass over a non-empty subset, in script order.
FullOutputs ==
  <<Out("metric", "tempo_medio"), Out("metric", "taxa_resolucao"),
    Out("metric", "total_chamados"), Out("metric", "setor_top"),
    Out("plotly_chart", "graf1"), Out("plotly_chart", "graf2"),
    Out("plotly_chart", "graf3"), Out("plotly_chart", "graf4"),
    Out("download_button", "chamados_filtrados.csv"),
    Out("dataframe", "df_filtrado")>>

\* C8 as stated: no metric, chart or table of a pass is shown while the
\* subset, a metric or a view of the pass is still to be computed.
C8_AllComputedBeforeAnyOutput ==
  (HasRows /\ \E i \in DOMAIN shown : IsResult(shown[i])) =>
    ({"df_filtrado"} \cup AllKpis \cup AllViews) \subseteq ns

\* C8 amended: the outputs of a pass come in script order; the subset and
\* the four metrics are computed before the first of them is shown, and
\* each view is computed before its own chart is shown.
C8_EachOutputAfterItsValue ==
  /\ \A i \in DOMAIN shown :
       /\ IsResult(shown[i]) => ({"df_filtrado"} \cup AllKpis) \subseteq ns
       /\ shown[i].kind = "plotly_chart" => Bound(ViewOf(shown[i].of))
       /\ shown[i].kind = "download_button" => download.exists
  /\ HasRows => PassOutputs = SubSeq(FullOutputs, 1, Len(PassOutputs))

\* The metrics are on the page and the first view is not computed yet.
C8_Witness ==
  /\ HasRows
  /\ pc = "graf1"
  /\ \E i \in DOMAIN shown : shown[i] = Out("metric", "setor_top")
  /\ ~Bound("chamados_por_setor")

\* The calendar months in which a record of the filtered subset was opened.
MonthsPresent ==
  {<<df_filtrado.rows[i]["data"].y, df_filtrado.rows[i]["data"].m>> :
     i \in DOMAIN df_filtrado.rows}
\* The (year, month) a bucket label stands for.
BucketMonth(k) == <<ParseInt(SubSeq(k, 1, 4)), ParseInt(SubSeq(k, 6, Len(k)))>>

====
